---- MODULE Spec2Model ----
(***************************************************************************)
(* The evaluator of src/interp.rs as a state machine.                      *)
(*                                                                         *)
(* Two entry points are modelled: the recursive eval_file (eval and the    *)
(* eval_* functions) and the trampolined Interpreter::eval_file (Bounce,   *)
(* Trampoline, the bounce_* functions).  The native call stack is the      *)
(* variable stack: one frame per activation, the top frame being the one   *)
(* that runs.  One action per function of the source; an action runs its   *)
(* function from where the frame stands to its next call or its return.    *)
(***************************************************************************)
EXTENDS Integers, Sequences, FiniteSets, TLC

(***************************************************************************)
(* Bounds of the model.                                                    *)
(***************************************************************************)
\* Longest chain of tail calls in the TailLoop programs.
MaxChain == 4

\* Largest number of parameters and of arguments in the Arity programs.
MaxArity == 3

\* Nesting depth of the terms is_pure is applied to in SpecPure.
PureDepth == 2

\* The Int operands handed to the operators of Value are -MaxInt..MaxInt.
MaxInt == 2

(***************************************************************************)
(* Terms (crate::ast).  Every term carries the kind of its variant and its *)
(* Location (loc: the start offset stands for the whole Location).         *)
(***************************************************************************)
TInt(n, l) == [kind |-> "Int", loc |-> l, value |-> n]

TStr(s, l) == [kind |-> "Str", loc |-> l, value |-> s]

TBool(b, l) == [kind |-> "Bool", loc |-> l, value |-> b]

TVar(x, l) == [kind |-> "Var", loc |-> l, text |-> x]

TLet(x, v, n, l) == [kind |-> "Let", loc |-> l, name |-> x, value |-> v, next |-> n]

TFunction(ps, b, l) == [kind |-> "Function", loc |-> l, parameters |-> ps, value |-> b]

TCall(f, as, l) == [kind |-> "Call", loc |-> l, callee |-> f, arguments |-> as]

TIf(c, t, e, l) == [kind |-> "If", loc |-> l, condition |-> c, then |-> t, otherwise |-> e]

TBinary(a, o, b, l) == [kind |-> "Binary", loc |-> l, lhs |-> a, op |-> o, rhs |-> b]

TTuple(a, b, l) == [kind |-> "Tuple", loc |-> l, first |-> a, second |-> b]

TFirst(v, l) == [kind |-> "First", loc |-> l, value |-> v]

TSecond(v, l) == [kind |-> "Second", loc |-> l, value |-> v]

TPrint(v, l) == [kind |-> "Print", loc |-> l, value |-> v]

(***************************************************************************)
(* Values, results and errors.                                             *)
(***************************************************************************)
VInt(n) == [tag |-> "Int", int |-> n]

VStr(s) == [tag |-> "Str", str |-> s]

VBool(b) == [tag |-> "Bool", bool |-> b]

VTuple(a, b) == [tag |-> "Tuple", first |-> a, second |-> b]

VClosure(ps, b, c) == [tag |-> "Closure", parameters |-> ps, body |-> b, context |-> c]

RuntimeError(m, t, l) == [message |-> m, full_text |-> t, location |-> l]

Ok(v) == [kind |-> "Ok", val |-> v]

Err(e) == [kind |-> "Err", err |-> e]

\* A panic of the Rust runtime: the thread unwinds, no Result is returned.
Panic(m) == [kind |-> "Panic", msg |-> m]

None == [some |-> FALSE]

Some(x) == [some |-> TRUE, val |-> x]

(***************************************************************************)
(* Display: the rendering of values (impl Display for Value, for Tuple).   *)
(***************************************************************************)
RECURSIVE display(_)
display(v) ==
    CASE v.tag = "Closure" -> "[closure]"
      [] v.tag = "Int" -> ToString(v.int)
      [] v.tag = "Str" -> v.str
      [] v.tag = "Bool" -> (IF v.bool THEN "true" ELSE "false")
      [] v.tag = "Tuple" -> "(" \o display(v.first) \o ", " \o display(v.second) \o ")"

display_Tuple(t) == "(" \o display(t.first) \o ", " \o display(t.second) \o ")"

(***************************************************************************)
(* impl Hash for Value: the string each variant feeds to the hasher, or a  *)
(* panic for a Closure.  The hasher itself is taken collision-free: the    *)
(* digest of a string is modelled by the string.                           *)
(***************************************************************************)
hash_Value(v) ==
    CASE v.tag = "Closure" -> Panic("this should never be executed")
      [] v.tag = "Int" -> Ok("Int(" \o ToString(v.int) \o ")")
      [] v.tag = "Str" -> Ok("Str(" \o v.str \o ")")
      [] v.tag = "Bool" -> Ok("Bool(" \o (IF v.bool THEN "true" ELSE "false") \o ")")
      [] v.tag = "Tuple" -> Ok("Tuple(" \o display_Tuple(v) \o ")")

(***************************************************************************)
(* The operators of Value.                                                 *)
(***************************************************************************)
\* The strings of the programs below, in the order of Rust's str comparison.
StrOrder == <<"", "1", "a", "ab", "b">>

StrRank(s) == CHOOSE i \in 1..Len(StrOrder) : StrOrder[i] = s

BoolRank(b) == IF b THEN 1 ELSE 0

SameComparable(l, r) == l.tag = r.tag /\ l.tag \in {"Bool", "Str", "Int"}

\* The position of a Bool, Str or Int among the values of its variant.
Rank(v) ==
    CASE v.tag = "Bool" -> BoolRank(v.bool)
      [] v.tag = "Str" -> StrRank(v.str)
      [] v.tag = "Int" -> v.int

invalid_comparison(l, r, location) ==
    RuntimeError("invalid comparison",
                 display(l) \o " and " \o display(r) \o " cannot be compared",
                 location)

\* eq as it would be were every pair of operands compared.
eq_of_any(l, r, location) == Ok(VBool(l = r))

eq(l, r, location) ==
    IF SameComparable(l, r) THEN Ok(VBool(l = r))
    ELSE Err(invalid_comparison(l, r, location))

neq(l, r, location) ==
    IF SameComparable(l, r) THEN Ok(VBool(l # r))
    ELSE Err(invalid_comparison(l, r, location))

lt(l, r, location) ==
    IF SameComparable(l, r) THEN Ok(VBool(Rank(l) < Rank(r)))
    ELSE Err(invalid_comparison(l, r, location))

lte(l, r, location) ==
    IF SameComparable(l, r) THEN Ok(VBool(Rank(l) <= Rank(r)))
    ELSE Err(invalid_comparison(l, r, location))

gt(l, r, location) ==
    IF SameComparable(l, r) THEN Ok(VBool(Rank(l) > Rank(r)))
    ELSE Err(invalid_comparison(l, r, location))

gte(l, r, location) ==
    IF SameComparable(l, r) THEN Ok(VBool(Rank(l) >= Rank(r)))
    ELSE Err(invalid_comparison(l, r, location))

invalid_binary_operation(location) ==
    RuntimeError("invalid binary operation",
                 "only booleans can be used on short-circuit operations",
                 location)

and(l, r, location) ==
    IF l.tag = "Bool" /\ r.tag = "Bool" THEN Ok(VBool(l.bool /\ r.bool))
    ELSE Err(invalid_binary_operation(location))

\* or as it would be were a true left operand the answer, whatever the right one.
or_of_true_left(l, r, location) ==
    IF l.tag = "Bool" /\ r.tag = "Bool" THEN Ok(VBool(l.bool \/ r.bool))
    ELSE IF l = VBool(TRUE) THEN Ok(VBool(TRUE))
    ELSE Err(invalid_binary_operation(location))

or(l, r, location) ==
    IF l.tag = "Bool" /\ r.tag = "Bool" THEN Ok(VBool(l.bool \/ r.bool))
    ELSE Err(invalid_binary_operation(location))

\* The Err arms shared by add, sub, mul, div and rem; what names the operation.
invalid_numeric_operation(l, r, what, location) ==
    RuntimeError("invalid numeric operation",
                 CASE l.tag = "Str" /\ r.tag = "Str" -> "strings cannot be " \o what
                   [] l.tag = "Bool" /\ r.tag = "Bool" -> "booleans cannot be " \o what
                   [] l.tag = "Closure" /\ r.tag = "Closure" -> "closures cannot be " \o what
                   [] OTHER -> "different types cannot be used on the same operation",
                 location)

\* Rust's integer division: the quotient truncated towards zero.
TruncDiv(a, b) ==
    IF (a >= 0) = (b >= 0)
    THEN (IF a >= 0 THEN a ELSE -a) \div (IF b >= 0 THEN b ELSE -b)
    ELSE -((IF a >= 0 THEN a ELSE -a) \div (IF b >= 0 THEN b ELSE -b))

\* l_int / r_int of i64: a panic for a zero divisor.
IntDiv(a, b) ==
    IF b = 0 THEN Panic("attempt to divide by zero") ELSE Ok(VInt(TruncDiv(a, b)))

\* add as it would be were two Str concatenated.
add_of_strings(l, r, location) ==
    IF l.tag = "Int" /\ r.tag = "Int" THEN Ok(VInt(l.int + r.int))
    ELSE IF l.tag = "Str" /\ r.tag = "Str" THEN Ok(VStr(l.str \o r.str))
    ELSE Err(invalid_numeric_operation(l, r, "added", location))

add(l, r, location) ==
    IF l.tag = "Int" /\ r.tag = "Int" THEN Ok(VInt(l.int + r.int))
    ELSE Err(invalid_numeric_operation(l, r, "added", location))

sub(l, r, location) ==
    IF l.tag = "Int" /\ r.tag = "Int" THEN Ok(VInt(l.int - r.int))
    ELSE Err(invalid_numeric_operation(l, r, "subtracted", location))

\* mul as it would be were the product computed.
mul_of_product(l, r, location) ==
    IF l.tag = "Int" /\ r.tag = "Int" THEN Ok(VInt(l.int * r.int))
    ELSE Err(invalid_numeric_operation(l, r, "multiplied", location))

mul(l, r, location) ==
    IF l.tag = "Int" /\ r.tag = "Int" THEN Ok(VInt(l.int - r.int))
    ELSE Err(invalid_numeric_operation(l, r, "multiplied", location))

div(l, r, location) ==
    IF l.tag = "Int" /\ r.tag = "Int" THEN IntDiv(l.int, r.int)
    ELSE Err(invalid_numeric_operation(l, r, "divided", location))

rem(l, r, location) ==
    IF l.tag = "Int" /\ r.tag = "Int" THEN IntDiv(l.int, r.int)
    ELSE Err(invalid_numeric_operation(l, r, "used with rem", location))

\* The match on binary.op of eval_binary and bounce_binary.
apply_binary(op, l, r, location) ==
    CASE op = "Eq" -> eq(l, r, location)
      [] op = "Neq" -> neq(l, r, location)
      [] op = "Lt" -> lt(l, r, location)
      [] op = "Lte" -> lte(l, r, location)
      [] op = "Gt" -> gt(l, r, location)
      [] op = "Gte" -> gte(l, r, location)
      [] op = "And" -> and(l, r, location)
      [] op = "Or" -> or(l, r, location)
      [] op = "Add" -> add(l, r, location)
      [] op = "Sub" -> sub(l, r, location)
      [] op = "Mul" -> mul(l, r, location)
      [] op = "Div" -> div(l, r, location)
      [] op = "Rem" -> rem(l, r, location)

(***************************************************************************)
(* Context (im::HashMap<String, Value>): a function from names to values.  *)
(***************************************************************************)
EmptyContext == <<>>

\* Context::update: the map with one binding added or replaced.
update(c, k, v) == [n \in DOMAIN c \cup {k} |-> IF n = k THEN v ELSE c[n]]

\* union as it would be were the caller's Context left out of the merge.
union_lexical(a, b) == a

\* Context::union: on a name of both maps the value of the first map is kept.
union(a, b) == [n \in DOMAIN a \cup DOMAIN b |-> IF n \in DOMAIN a THEN a[n] ELSE b[n]]

\* Context::get.
get(c, k) == IF k \in DOMAIN c THEN Some(c[k]) ELSE None

\* update_context as it would be were the parameters and arguments zipped: what
\* is left over of the longer list is dropped.
RECURSIVE update_context_zip(_, _, _, _)
update_context_zip(parameters, arguments, acc, location) ==
    IF Len(parameters) = 0 \/ Len(arguments) = 0 THEN Ok(acc)
    ELSE update_context_zip(Tail(parameters), Tail(arguments),
                            update(acc, parameters[1], arguments[1]), location)

RECURSIVE update_context(_, _, _, _)
update_context(parameters, arguments, acc, location) ==
    IF (Len(parameters) = 0) # (Len(arguments) = 0)
    THEN Err(RuntimeError("invalid arguments",
                          "expecting " \o ToString(Len(parameters))
                              \o " arguments but got " \o ToString(Len(arguments)),
                          location))
    ELSE IF Len(parameters) = 0 THEN Ok(acc)
    ELSE IF Len(parameters) = 1 /\ Len(arguments) = 1
    THEN Ok(update(acc, parameters[1], arguments[1]))
    ELSE update_context(Tail(parameters), Tail(arguments),
                        update(acc, parameters[1], arguments[1]), location)

\* is_pure as it would be were the value and the next of a Let searched too.
RECURSIVE is_pure_through_let(_)
is_pure_through_let(term) ==
    CASE term.kind = "Function" -> is_pure_through_let(term.value)
      [] term.kind = "Print" -> FALSE
      [] term.kind = "Let" -> is_pure_through_let(term.value) /\ is_pure_through_let(term.next)
      [] OTHER -> TRUE

\* is_pure as it would be were every body classified pure.
is_pure_of_any(term) == TRUE

RECURSIVE is_pure(_)
is_pure(term) ==
    CASE term.kind = "Function" -> is_pure(term.value)
      [] term.kind = "Print" -> FALSE
      [] OTHER -> TRUE

(***************************************************************************)
(* Cache (std HashMap<String, Value>) and its key.  The key is the digest  *)
(* of the body term and of the digests of the arguments; with the hasher   *)
(* taken collision-free it is modelled by what is fed to it.               *)
(***************************************************************************)
EmptyCache == <<>>

\* cache_key as it would be were every argument hashed by its rendering, a
\* Closure included.
cache_key_of_renderings(body, arguments) ==
    Ok(Some([body |-> body,
             arguments |-> [i \in 1..Len(arguments) |-> display(arguments[i])]]))

cache_key(body, arguments) ==
    IF \E i \in 1..Len(arguments) : arguments[i].tag = "Closure"
    THEN Ok(None)
    ELSE IF \E i \in 1..Len(arguments) : hash_Value(arguments[i]).kind = "Panic"
    THEN Panic("this should never be executed")
    ELSE Ok(Some([body |-> body,
                  arguments |-> [i \in 1..Len(arguments) |-> hash_Value(arguments[i]).val]]))

\* The key as it would be were the context of the call part of it.
memo_cache_key_with_context(body, arguments, context) ==
    IF cache_key(body, arguments).kind = "Ok" /\ cache_key(body, arguments).val.some
    THEN Ok(Some([body |-> body,
                  arguments |-> cache_key(body, arguments).val.val.arguments,
                  context |-> context]))
    ELSE cache_key(body, arguments)

\* cache_key(&body, arguments.clone()) as memo_eval calls it: the context of the
\* call is at hand there and is left out of the key.
memo_cache_key(body, arguments, context) == cache_key(body, arguments)

\* cache.get(&cache_key)
cache_get(c, k) == IF k \in DOMAIN c THEN Some(c[k]) ELSE None

\* cache.insert as it would be were the value never stored.
cache_insert_dropped(c, k, v) == c

\* cache.insert(cache_key, value): a value already under the key is replaced.
cache_insert(c, k, v) == [x \in DOMAIN c \cup {k} |-> IF x = k THEN v ELSE c[x]]

(***************************************************************************)
(* The state.                                                              *)
(***************************************************************************)
VARIABLES
    engine,   \* the entry point of the run: "eval_file" or "Interpreter"
    prog,     \* file.expression, the program of the run
    stack,    \* the native call stack, one frame per activation
    ret,      \* <<r>>: the Result the callee just returned to the top frame; else <<>>
    cache,    \* the Cache of the run
    out,      \* the lines written to standard output
    ictx,     \* interpreter.context
    result,   \* what the entry point returned, or the panic that ended the run
    log,      \* history: the calls made and what the memoization did with them
    pterm,    \* SpecPure: the term handed to is_pure; SpecValue: the operator and operands
    pres,     \* SpecPure: what is_pure answered; SpecValue: what the operator returned
    before    \* SpecBoth: <<what eval_file returned and printed for prog>>; else <<>>

vars == <<engine, prog, stack, ret, cache, out, ictx, result, log, pterm, pres, before>>

NoResult == [kind |-> "None"]

\* Trampoline: Land(result) or Bounce(the term and, by reference, the interpreter).
Land(r) == [tr |-> "Land", res |-> r]

Bounce(t) == [tr |-> "Bounce", term |-> t]

NoTrampoline == [tr |-> "None"]

\* One activation: the function, where it stands, and its arguments and locals.
Frame(fn, term, ctx, terms, vals, tr) ==
    [fn |-> fn, pc |-> 0, term |-> term, ctx |-> ctx, terms |-> terms,
     vals |-> vals, tr |-> tr]

Literal(term) ==
    CASE term.kind = "Int" -> VInt(term.value)
      [] term.kind = "Str" -> VStr(term.value)
      [] term.kind = "Bool" -> VBool(term.value)

\* The match of eval: the function a term is passed on to.
EvalFn(term) ==
    CASE term.kind \in {"Int", "Str", "Bool"} -> "eval"
      [] term.kind = "Let" -> "eval_let"
      [] term.kind = "Function" -> "eval_function"
      [] term.kind = "Call" -> "eval_call"
      [] term.kind = "If" -> "eval_if"
      [] term.kind = "Binary" -> "eval_binary"
      [] term.kind = "Var" -> "eval_var"
      [] term.kind = "Tuple" -> "eval_tuple"
      [] term.kind = "First" -> "eval_first"
      [] term.kind = "Second" -> "eval_second"
      [] term.kind = "Print" -> "eval_print"

\* The activation of eval(term, context, cache).
EvalFrame(term, ctx) == Frame(EvalFn(term), term, ctx, <<>>, <<>>, NoTrampoline)

\* Interpreter::eval: the Trampoline of a term.
Interpreter_eval(term) ==
    IF term.kind \in {"Int", "Str", "Bool"} THEN Land(Ok(Literal(term))) ELSE Bounce(term)

\* The match of Bounce::run: the function a Bounce is passed on to.
BounceFn(kind) ==
    CASE kind = "Let" -> "bounce_let"
      [] kind = "Function" -> "bounce_function"
      [] kind = "Call" -> "bounce_call"
      [] kind = "If" -> "bounce_if"
      [] kind = "Binary" -> "bounce_binary"
      [] kind = "Var" -> "bounce_var"
      [] kind = "Tuple" -> "bounce_tuple"
      [] kind = "First" -> "bounce_first"
      [] kind = "Second" -> "bounce_second"
      [] kind = "Print" -> "bounce_print"
      [] OTHER -> "todo"

\* The activation of trampoline.run().  Its ctx is history: interpreter.context
\* when the run was entered (the code holds the interpreter by reference).
RunFrame(tr) == Frame("run", <<>>, ictx, <<>>, <<>>, tr)

Top == stack[Len(stack)]

Pop == SubSeq(stack, 1, Len(stack) - 1)

At(fn) == Len(stack) > 0 /\ Top.fn = fn

\* The Result handed back to the top frame.
R == ret[1]

(***************************************************************************)
(* What a step does to the state.                                          *)
(***************************************************************************)
Same ==
    [stack |-> stack, ret |-> ret, cache |-> cache, out |-> out, ictx |-> ictx,
     result |-> result, log |-> log]

\* The top frame, become f, calls g.
ECallF(f, g) == [Same EXCEPT !.stack = Append(Append(Pop, f), g), !.ret = <<>>]

\* The top frame moves to pc and calls g.
ECall(pc, g) == ECallF([Top EXCEPT !.pc = pc], g)

\* The top frame returns r to its caller.
EReturn(r) == [Same EXCEPT !.stack = Pop, !.ret = <<r>>]

\* The top frame panics: the run is over.
EPanic(m) == [Same EXCEPT !.stack = <<>>, !.ret = <<>>, !.result = Panic(m)]

Apply(e) ==
    /\ stack' = e.stack
    /\ ret' = e.ret
    /\ cache' = e.cache
    /\ out' = e.out
    /\ ictx' = e.ictx
    /\ result' = e.result
    /\ log' = e.log
    /\ UNCHANGED <<engine, prog, pterm, pres, before>>

(***************************************************************************)
(* History: what the calls and the memoization did, in order.              *)
(***************************************************************************)
\* The functions whose activations make the native nesting depth: Trampoline::run
\* and eval (each eval activation is counted with the function it passes on to).
Evaluators ==
    {"run", "eval", "eval_let", "eval_function", "eval_call", "eval_if", "eval_binary",
     "eval_var", "eval_tuple", "eval_first", "eval_second", "eval_print"}

NativeDepth == Cardinality({i \in 1..Len(stack) : stack[i].fn \in Evaluators})

\* A call that has its closure and its argument values: what update_context
\* made of them (bound) and how deep the native stack is.
CallEvent(fn, call, closure, arguments, caller, bound) ==
    [ev |-> "call", fn |-> fn, loc |-> call.loc, closure |-> closure,
     arguments |-> arguments, caller |-> caller, bound |-> bound,
     pure |-> is_pure(closure.body), depth |-> NativeDepth]

\* memo_eval: "hit", "miss" (the body is evaluated, to be stored), "nokey" (the
\* body is evaluated, not to be stored) or "stored" (the insert after a miss).
MemoEvent(ev, body, arguments, val) ==
    [ev |-> ev, body |-> body, arguments |-> arguments, val |-> val]

(***************************************************************************)
(* The recursive evaluator: eval and the functions it passes a term on to. *)
(***************************************************************************)
\* eval, the arms of the literals.
eval ==
    /\ At("eval")
    /\ Apply(EReturn(Ok(Literal(Top.term))))

eval_function ==
    /\ At("eval_function")
    /\ Apply(EReturn(Ok(VClosure(Top.term.parameters, Top.term.value, Top.ctx))))

unbound_variable(var) ==
    RuntimeError("unbound variable \"" \o var.text \o "\"",
                 "variable \"" \o var.text \o "\" was not defined in the current scope",
                 var.loc)

\* context.get(&var.text).ok_or(..).map(clone)
lookup(context, var) ==
    IF get(context, var.text).some THEN Ok(get(context, var.text).val)
    ELSE Err(unbound_variable(var))

eval_var ==
    /\ At("eval_var")
    /\ Apply(EReturn(lookup(Top.ctx, Top.term)))

eval_let ==
    /\ At("eval_let")
    /\ Apply(LET f == Top
                 let_ == Top.term
             IN  CASE f.pc = 0 -> ECall(1, EvalFrame(let_.value, f.ctx))
                   [] f.pc = 1 ->
                        IF R.kind # "Ok" THEN EReturn(R)
                        ELSE ECall(2, EvalFrame(let_.next, update(f.ctx, let_.name, R.val)))
                   [] f.pc = 2 -> EReturn(R))

\* The activation of eval_arguments(arguments, acc, context, cache).
ArgumentsFrame(arguments, acc, ctx) ==
    Frame("eval_arguments", <<>>, ctx, arguments, acc, NoTrampoline)

eval_arguments ==
    /\ At("eval_arguments")
    /\ Apply(LET f == Top
             IN  CASE f.pc = 0 ->
                        IF f.terms = <<>> THEN EReturn(Ok(f.vals))
                        ELSE ECall(1, EvalFrame(Head(f.terms), f.ctx))
                   [] f.pc = 1 ->
                        IF R.kind # "Ok" THEN EReturn(R)
                        ELSE ECall(2, ArgumentsFrame(Tail(f.terms), Append(f.vals, R.val), f.ctx))
                   [] f.pc = 2 -> EReturn(R))

\* The activation of memo_eval(body, arguments, context, cache).
MemoFrame(fn, body, arguments, ctx) == Frame(fn, body, ctx, <<>>, arguments, NoTrampoline)

\* The error of a callee that is not a Closure as it would be were it located at
\* the callee, as the errors of If and Binary are at their first operand.
invalid_function_call_at_callee(value, call) ==
    RuntimeError("invalid function call",
                 display(value) \o " cannot be called as a function",
                 call.callee.loc)

invalid_function_call(value, call) ==
    RuntimeError("invalid function call",
                 display(value) \o " cannot be called as a function",
                 call.loc)

eval_call ==
    /\ At("eval_call")
    /\ Apply(LET f == Top
                 call == Top.term
             IN  CASE f.pc = 0 -> ECall(1, EvalFrame(call.callee, f.ctx))
                   [] f.pc = 1 ->
                        IF R.kind # "Ok" THEN EReturn(R)
                        ELSE IF R.val.tag # "Closure"
                        THEN EReturn(Err(invalid_function_call(R.val, call)))
                        ELSE LET context == union(R.val.context, f.ctx)
                             IN  ECallF([f EXCEPT !.pc = 2, !.vals = <<R.val, context>>],
                                        ArgumentsFrame(call.arguments, <<>>, context))
                   [] f.pc = 2 ->
                        IF R.kind # "Ok" THEN EReturn(R)
                        ELSE LET closure == f.vals[1]
                                 arguments == R.val
                                 bound == update_context(closure.parameters, arguments,
                                                         f.vals[2], call.loc)
                                 e == CallEvent("eval_call", call, closure, arguments,
                                                f.ctx, bound)
                             IN  IF bound.kind # "Ok"
                                 THEN [EReturn(bound) EXCEPT !.log = Append(log, e)]
                                 ELSE [ECall(3, IF is_pure(closure.body)
                                                THEN MemoFrame("memo_eval", closure.body,
                                                               arguments, bound.val)
                                                ELSE EvalFrame(closure.body, bound.val))
                                         EXCEPT !.log = Append(log, e)]
                   [] f.pc = 3 -> EReturn(R))

\* memo_eval as it would be were the failure of the body stored under the key
\* too, as the text of its message.
memo_eval_storing_failures ==
    /\ At("memo_eval")
    /\ Apply(LET f == Top
                 body == Top.term
                 arguments == Top.vals
                 key == memo_cache_key(body, arguments, f.ctx)
             IN  CASE f.pc = 0 ->
                        IF key.kind = "Panic" THEN EPanic(key.msg)
                        ELSE IF ~key.val.some
                        THEN [ECall(2, EvalFrame(body, f.ctx))
                                EXCEPT !.log = Append(log, MemoEvent("nokey", body, arguments, <<>>))]
                        ELSE IF cache_get(cache, key.val.val).some
                        THEN [EReturn(Ok(cache_get(cache, key.val.val).val))
                                EXCEPT !.log = Append(log, MemoEvent("hit", body, arguments,
                                                       cache_get(cache, key.val.val).val))]
                        ELSE [ECall(1, EvalFrame(body, f.ctx))
                                EXCEPT !.log = Append(log, MemoEvent("miss", body, arguments, <<>>))]
                   [] f.pc = 1 ->
                        IF R.kind # "Ok"
                        THEN [EReturn(R)
                                EXCEPT !.cache = cache_insert(cache, key.val.val,
                                                              VStr(R.err.message))]
                        ELSE [EReturn(Ok(R.val))
                                EXCEPT !.cache = cache_insert(cache, key.val.val, R.val),
                                       !.log = Append(log, MemoEvent("stored", body, arguments, R.val))]
                   [] f.pc = 2 -> EReturn(R))

memo_eval ==
    /\ At("memo_eval")
    /\ Apply(LET f == Top
                 body == Top.term
                 arguments == Top.vals
                 key == memo_cache_key(body, arguments, f.ctx)
             IN  CASE f.pc = 0 ->
                        IF key.kind = "Panic" THEN EPanic(key.msg)
                        ELSE IF ~key.val.some
                        THEN [ECall(2, EvalFrame(body, f.ctx))
                                EXCEPT !.log = Append(log, MemoEvent("nokey", body, arguments, <<>>))]
                        ELSE IF cache_get(cache, key.val.val).some
                        THEN [EReturn(Ok(cache_get(cache, key.val.val).val))
                                EXCEPT !.log = Append(log, MemoEvent("hit", body, arguments,
                                                       cache_get(cache, key.val.val).val))]
                        ELSE [ECall(1, EvalFrame(body, f.ctx))
                                EXCEPT !.log = Append(log, MemoEvent("miss", body, arguments, <<>>))]
                   [] f.pc = 1 ->
                        IF R.kind # "Ok" THEN EReturn(R)
                        ELSE [EReturn(Ok(R.val))
                                EXCEPT !.cache = cache_insert(cache, key.val.val, R.val),
                                       !.log = Append(log, MemoEvent("stored", body, arguments, R.val))]
                   [] f.pc = 2 -> EReturn(R))

invalid_if_condition(value, if_) ==
    RuntimeError("invalid if condition",
                 display(value) \o " can't be used as an if condition. use a boolean instead",
                 if_.condition.loc)

\* eval_if as it would be were a condition that is not a Bool taken for false.
eval_if_of_any ==
    /\ At("eval_if")
    /\ Apply(LET f == Top
                 if_ == Top.term
             IN  CASE f.pc = 0 -> ECall(1, EvalFrame(if_.condition, f.ctx))
                   [] f.pc = 1 ->
                        IF R.kind # "Ok" THEN EReturn(R)
                        ELSE ECall(2, EvalFrame(IF R.val = VBool(TRUE) THEN if_.then
                                                ELSE if_.otherwise, f.ctx))
                   [] f.pc = 2 -> EReturn(R))

eval_if ==
    /\ At("eval_if")
    /\ Apply(LET f == Top
                 if_ == Top.term
             IN  CASE f.pc = 0 -> ECall(1, EvalFrame(if_.condition, f.ctx))
                   [] f.pc = 1 ->
                        IF R.kind # "Ok" THEN EReturn(R)
                        ELSE IF R.val.tag # "Bool"
                        THEN EReturn(Err(invalid_if_condition(R.val, if_)))
                        ELSE ECall(2, EvalFrame(IF R.val.bool THEN if_.then ELSE if_.otherwise,
                                                f.ctx))
                   [] f.pc = 2 -> EReturn(R))

\* The Result of the operator, or the panic it ends in.
EBinary(res) == IF res.kind = "Panic" THEN EPanic(res.msg) ELSE EReturn(res)

\* eval_binary as it would be were the Result of the left operand looked at only
\* after the right operand was evaluated.
eval_binary_checking_late ==
    /\ At("eval_binary")
    /\ Apply(LET f == Top
                 binary == Top.term
             IN  CASE f.pc = 0 -> ECall(1, EvalFrame(binary.lhs, f.ctx))
                   [] f.pc = 1 ->
                        ECallF([f EXCEPT !.pc = 2, !.vals = <<R>>],
                               EvalFrame(binary.rhs, f.ctx))
                   [] f.pc = 2 ->
                        IF f.vals[1].kind # "Ok" THEN EReturn(f.vals[1])
                        ELSE IF R.kind # "Ok" THEN EReturn(R)
                        ELSE EBinary(apply_binary(binary.op, f.vals[1].val, R.val,
                                                  binary.lhs.loc)))

eval_binary ==
    /\ At("eval_binary")
    /\ Apply(LET f == Top
                 binary == Top.term
             IN  CASE f.pc = 0 -> ECall(1, EvalFrame(binary.lhs, f.ctx))
                   [] f.pc = 1 ->
                        IF R.kind # "Ok" THEN EReturn(R)
                        ELSE ECallF([f EXCEPT !.pc = 2, !.vals = <<R.val>>],
                                    EvalFrame(binary.rhs, f.ctx))
                   [] f.pc = 2 ->
                        IF R.kind # "Ok" THEN EReturn(R)
                        ELSE EBinary(apply_binary(binary.op, f.vals[1], R.val, binary.lhs.loc)))

eval_tuple ==
    /\ At("eval_tuple")
    /\ Apply(LET f == Top
                 tuple == Top.term
             IN  CASE f.pc = 0 -> ECall(1, EvalFrame(tuple.first, f.ctx))
                   [] f.pc = 1 ->
                        IF R.kind # "Ok" THEN EReturn(R)
                        ELSE ECallF([f EXCEPT !.pc = 2, !.vals = <<R.val>>],
                                    EvalFrame(tuple.second, f.ctx))
                   [] f.pc = 2 ->
                        IF R.kind # "Ok" THEN EReturn(R)
                        ELSE EReturn(Ok(VTuple(f.vals[1], R.val))))

\* The match of eval_first and bounce_first on the value of the operand.
project_first(value, first) ==
    IF value.tag = "Tuple" THEN Ok(value.first)
    ELSE Err(RuntimeError("invalid expression",
                          "cannot use first operation from anything but a tuple",
                          first.loc))

\* The match of eval_second and bounce_second on the value of the operand.
project_second(value, second) ==
    IF value.tag = "Tuple" THEN Ok(value.second)
    ELSE Err(RuntimeError("invalid expression",
                          "cannot use second operation from anything but a tuple",
                          second.loc))

eval_first ==
    /\ At("eval_first")
    /\ Apply(CASE Top.pc = 0 -> ECall(1, EvalFrame(Top.term.value, Top.ctx))
               [] Top.pc = 1 ->
                    IF R.kind # "Ok" THEN EReturn(R)
                    ELSE EReturn(project_first(R.val, Top.term)))

eval_second ==
    /\ At("eval_second")
    /\ Apply(CASE Top.pc = 0 -> ECall(1, EvalFrame(Top.term.value, Top.ctx))
               [] Top.pc = 1 ->
                    IF R.kind # "Ok" THEN EReturn(R)
                    ELSE EReturn(project_second(R.val, Top.term)))

\* println! as it would be were the line written twice.
println_twice(o, value) == Append(Append(o, display(value)), display(value))

\* println!("{}", print_value)
println(o, value) == Append(o, display(value))

eval_print ==
    /\ At("eval_print")
    /\ Apply(CASE Top.pc = 0 -> ECall(1, EvalFrame(Top.term.value, Top.ctx))
               [] Top.pc = 1 ->
                    IF R.kind # "Ok" THEN EReturn(R)
                    ELSE [EReturn(Ok(R.val)) EXCEPT !.out = println(out, R.val)])

\* What the entry point returns ends the run.
EFinish(r) == [Same EXCEPT !.stack = <<>>, !.ret = <<>>, !.result = r]

eval_file ==
    /\ At("eval_file")
    /\ Apply(CASE Top.pc = 0 -> ECall(1, EvalFrame(prog, EmptyContext))
               [] Top.pc = 1 -> EFinish(R))

(***************************************************************************)
(* The trampolined evaluator: Trampoline::run, Bounce::run and the         *)
(* bounce_* functions.  A Bounce holds the interpreter by reference: the   *)
(* context it runs under is interpreter.context at the time it runs.       *)
(* A bounce_* function returns a Result<Trampoline, RuntimeError>.         *)
(***************************************************************************)
\* The loop of Trampoline::run, with Bounce::run's match.
Trampoline_run ==
    /\ At("run")
    /\ Apply(LET f == Top
             IN  CASE f.pc = 0 ->
                        IF f.tr.tr = "Land" THEN EReturn(f.tr.res)
                        ELSE IF BounceFn(f.tr.term.kind) = "todo"
                        THEN EPanic("not yet implemented")
                        ELSE ECall(1, Frame(BounceFn(f.tr.term.kind), f.tr.term,
                                            EmptyContext, <<>>, <<>>, NoTrampoline))
                   [] f.pc = 1 ->
                        IF R.kind # "Ok" THEN EReturn(R)
                        ELSE [Same EXCEPT !.stack = Append(Pop, [f EXCEPT !.pc = 0, !.tr = R.val]),
                                          !.ret = <<>>])

\* interpreter.eval(term).run()
ERun(pc, term) == ECall(pc, RunFrame(Interpreter_eval(term)))

\* bounce_let as it would be were the next of the Let run by a nested
\* Trampoline::run and its value landed.
bounce_let_running_next ==
    /\ At("bounce_let")
    /\ Apply(LET let_ == Top.term
             IN  CASE Top.pc = 0 -> ERun(1, let_.value)
                   [] Top.pc = 1 ->
                        IF R.kind # "Ok" THEN EReturn(R)
                        ELSE [ERun(2, let_.next)
                                EXCEPT !.ictx = update(ictx, let_.name, R.val)]
                   [] Top.pc = 2 -> EReturn(Ok(Land(R))))

bounce_let ==
    /\ At("bounce_let")
    /\ Apply(LET let_ == Top.term
             IN  CASE Top.pc = 0 -> ERun(1, let_.value)
                   [] Top.pc = 1 ->
                        IF R.kind # "Ok" THEN EReturn(R)
                        ELSE [EReturn(Ok(Interpreter_eval(let_.next)))
                                EXCEPT !.ictx = update(ictx, let_.name, R.val)])

bounce_function ==
    /\ At("bounce_function")
    /\ Apply(EReturn(Ok(Land(Ok(VClosure(Top.term.parameters, Top.term.value, ictx))))))

bounce_call ==
    /\ At("bounce_call")
    /\ Apply(LET f == Top
                 call == Top.term
             IN  CASE f.pc = 0 -> ERun(1, call.callee)
                   [] f.pc = 1 ->
                        IF R.kind # "Ok" THEN EReturn(R)
                        ELSE IF R.val.tag # "Closure"
                        THEN EReturn(Err(invalid_function_call(R.val, call)))
                        ELSE LET context == union(R.val.context, ictx)
                             IN  ECallF([f EXCEPT !.pc = 2, !.vals = <<R.val, context, ictx>>],
                                        ArgumentsFrame(call.arguments, <<>>, context))
                   [] f.pc = 2 ->
                        IF R.kind # "Ok" THEN EReturn(R)
                        ELSE LET closure == f.vals[1]
                                 arguments == R.val
                                 updated_context == update_context(closure.parameters, arguments,
                                                                   f.vals[2], call.loc)
                                 e == CallEvent("bounce_call", call, closure, arguments,
                                                f.vals[3], updated_context)
                             IN  IF updated_context.kind # "Ok"
                                 THEN [EReturn(updated_context) EXCEPT !.log = Append(log, e)]
                                 ELSE IF is_pure(closure.body)
                                 THEN [ECall(3, MemoFrame("Interpreter_memo_eval", closure.body,
                                                          arguments, updated_context.val))
                                         EXCEPT !.ictx = updated_context.val,
                                                !.log = Append(log, e)]
                                 ELSE [EReturn(Ok(Interpreter_eval(closure.body)))
                                         EXCEPT !.ictx = updated_context.val,
                                                !.log = Append(log, e)]
                   [] f.pc = 3 -> EReturn(R))

Interpreter_memo_eval ==
    /\ At("Interpreter_memo_eval")
    /\ Apply(LET f == Top
                 body == Top.term
                 arguments == Top.vals
                 key == memo_cache_key(body, arguments, f.ctx)
             IN  CASE f.pc = 0 ->
                        IF key.kind = "Panic" THEN EPanic(key.msg)
                        ELSE IF ~key.val.some
                        THEN [EReturn(Ok(Interpreter_eval(body)))
                                EXCEPT !.log = Append(log, MemoEvent("nokey", body, arguments, <<>>))]
                        ELSE IF cache_get(cache, key.val.val).some
                        THEN [EReturn(Ok(Land(Ok(cache_get(cache, key.val.val).val))))
                                EXCEPT !.log = Append(log, MemoEvent("hit", body, arguments,
                                                       cache_get(cache, key.val.val).val))]
                        ELSE [ERun(1, body)
                                EXCEPT !.log = Append(log, MemoEvent("miss", body, arguments, <<>>))]
                   [] f.pc = 1 ->
                        IF R.kind # "Ok" THEN EReturn(R)
                        ELSE [EReturn(Ok(Land(Ok(R.val))))
                                EXCEPT !.cache = cache_insert(cache, key.val.val, R.val),
                                       !.log = Append(log, MemoEvent("stored", body, arguments, R.val))])

bounce_if ==
    /\ At("bounce_if")
    /\ Apply(LET if_ == Top.term
             IN  CASE Top.pc = 0 -> ERun(1, if_.condition)
                   [] Top.pc = 1 ->
                        IF R.kind # "Ok" THEN EReturn(R)
                        ELSE IF R.val.tag # "Bool"
                        THEN EReturn(Err(invalid_if_condition(R.val, if_)))
                        ELSE EReturn(Ok(Interpreter_eval(IF R.val.bool THEN if_.then
                                                         ELSE if_.otherwise))))

\* Ok(Trampoline::Land(result)) of the operator's Result, or the panic it ends in.
ELand(res) == IF res.kind = "Panic" THEN EPanic(res.msg) ELSE EReturn(Ok(Land(res)))

bounce_binary ==
    /\ At("bounce_binary")
    /\ Apply(LET f == Top
                 binary == Top.term
             IN  CASE f.pc = 0 -> ERun(1, binary.lhs)
                   [] f.pc = 1 ->
                        IF R.kind # "Ok" THEN EReturn(R)
                        ELSE ECallF([f EXCEPT !.pc = 2, !.vals = <<R.val>>],
                                    RunFrame(Interpreter_eval(binary.rhs)))
                   [] f.pc = 2 ->
                        IF R.kind # "Ok" THEN EReturn(R)
                        ELSE ELand(apply_binary(binary.op, f.vals[1], R.val, binary.lhs.loc)))

bounce_var ==
    /\ At("bounce_var")
    /\ Apply(EReturn(Ok(Land(lookup(ictx, Top.term)))))

bounce_tuple ==
    /\ At("bounce_tuple")
    /\ Apply(LET f == Top
                 tuple == Top.term
             IN  CASE f.pc = 0 -> ERun(1, tuple.first)
                   [] f.pc = 1 ->
                        IF R.kind # "Ok" THEN EReturn(R)
                        ELSE ECallF([f EXCEPT !.pc = 2, !.vals = <<R.val>>],
                                    RunFrame(Interpreter_eval(tuple.second)))
                   [] f.pc = 2 ->
                        IF R.kind # "Ok" THEN EReturn(R)
                        ELSE EReturn(Ok(Land(Ok(VTuple(f.vals[1], R.val))))))

bounce_first ==
    /\ At("bounce_first")
    /\ Apply(CASE Top.pc = 0 -> ERun(1, Top.term.value)
               [] Top.pc = 1 ->
                    IF R.kind # "Ok" THEN EReturn(R)
                    ELSE EReturn(Ok(Land(project_first(R.val, Top.term)))))

bounce_second ==
    /\ At("bounce_second")
    /\ Apply(CASE Top.pc = 0 -> ERun(1, Top.term.value)
               [] Top.pc = 1 ->
                    IF R.kind # "Ok" THEN EReturn(R)
                    ELSE EReturn(Ok(Land(project_second(R.val, Top.term)))))

bounce_print ==
    /\ At("bounce_print")
    /\ Apply(CASE Top.pc = 0 -> ERun(1, Top.term.value)
               [] Top.pc = 1 ->
                    IF R.kind # "Ok" THEN EReturn(R)
                    ELSE [EReturn(Ok(Land(Ok(R.val)))) EXCEPT !.out = println(out, R.val)])

Interpreter_eval_file ==
    /\ At("Interpreter_eval_file")
    /\ Apply(CASE Top.pc = 0 -> ERun(1, prog)
               [] Top.pc = 1 -> EFinish(R))

(***************************************************************************)
(* The programs of the model.  The number of a term is its Location.       *)
(***************************************************************************)
\* let x = 3; let f = () => y; let y = 4; f()
LateBinding ==
    TLet("x", TInt(3, 2),
         TLet("f", TFunction(<<>>, TVar("y", 5), 4),
              TLet("y", TInt(4, 7),
                   TCall(TVar("f", 9), <<>>, 8), 6), 3), 1)

\* let a = 0; let x = 1; let f = (a) => (a, (x, z)); let x = 2; let z = 5; f(7)
Precedence ==
    TLet("a", TInt(0, 2),
         TLet("x", TInt(1, 4),
              TLet("f", TFunction(<<"a">>,
                                  TTuple(TVar("a", 8),
                                         TTuple(TVar("x", 10), TVar("z", 11), 9), 7), 6),
                   TLet("x", TInt(2, 13),
                        TLet("z", TInt(5, 15),
                             TCall(TVar("f", 17), <<TInt(7, 18)>>, 16), 14), 12), 5), 3), 1)

\* let f = (a) => let y = print(a); y; (f(1), f(1))
MemoTwice ==
    TLet("f", TFunction(<<"a">>,
                        TLet("y", TPrint(TVar("a", 5), 4), TVar("y", 6), 3), 2),
         TTuple(TCall(TVar("f", 9), <<TInt(1, 10)>>, 8),
                TCall(TVar("f", 12), <<TInt(1, 13)>>, 11), 7), 1)

\* let mk = (k) => () => k; let a = mk(1); let b = mk(2); (a(), b())
SameBody ==
    TLet("mk", TFunction(<<"k">>, TFunction(<<>>, TVar("k", 4), 3), 2),
         TLet("a", TCall(TVar("mk", 7), <<TInt(1, 8)>>, 6),
              TLet("b", TCall(TVar("mk", 11), <<TInt(2, 12)>>, 10),
                   TTuple(TCall(TVar("a", 15), <<>>, 14),
                          TCall(TVar("b", 17), <<>>, 16), 13), 9), 5), 1)

\* let mk = (k) => () => if (k == 1) { b() + 10 } else { k };
\* let a = mk(1); let b = mk(2); a()
NestedSameKey ==
    TLet("mk",
         TFunction(<<"k">>,
                   TFunction(<<>>,
                             TIf(TBinary(TVar("k", 6), "Eq", TInt(1, 7), 5),
                                 TBinary(TCall(TVar("b", 10), <<>>, 9), "Add", TInt(10, 11), 8),
                                 TVar("k", 12), 4), 3), 2),
         TLet("a", TCall(TVar("mk", 15), <<TInt(1, 16)>>, 14),
              TLet("b", TCall(TVar("mk", 19), <<TInt(2, 20)>>, 18),
                   TCall(TVar("a", 22), <<>>, 21), 17), 13), 1)

\* 1 / 0
DivideByZero == TBinary(TInt(1, 2), "Div", TInt(0, 3), 1)

\* 7 % 0
RemainderByZero == TBinary(TInt(7, 2), "Rem", TInt(0, 3), 1)

\* let id = (f) => f; let g = () => 1; (id(g), id(g))
ClosureArgument ==
    TLet("id", TFunction(<<"f">>, TVar("f", 3), 2),
         TLet("g", TFunction(<<>>, TInt(1, 6), 5),
              TTuple(TCall(TVar("id", 9), <<TVar("g", 10)>>, 8),
                     TCall(TVar("id", 12), <<TVar("g", 13)>>, 11), 7), 4), 1)

\* let loop = (n) => if (n == 0) { 0 } else { loop(n - 1) }; loop(N)
TailLoopMemo(N) ==
    TLet("loop",
         TFunction(<<"n">>,
                   TIf(TBinary(TVar("n", 5), "Eq", TInt(0, 6), 4),
                       TInt(0, 7),
                       TCall(TVar("loop", 9),
                             <<TBinary(TVar("n", 11), "Sub", TInt(1, 12), 10)>>, 8), 3), 2),
         TCall(TVar("loop", 14), <<TInt(N, 15)>>, 13), 1)

\* let loop = (n, k) => if (n == 0) { 0 } else { loop(n - 1, k) }; loop(N, loop)
TailLoopClosure(N) ==
    TLet("loop",
         TFunction(<<"n", "k">>,
                   TIf(TBinary(TVar("n", 5), "Eq", TInt(0, 6), 4),
                       TInt(0, 7),
                       TCall(TVar("loop", 9),
                             <<TBinary(TVar("n", 11), "Sub", TInt(1, 12), 10),
                               TVar("k", 16)>>, 8), 3), 2),
         TCall(TVar("loop", 14), <<TInt(N, 15), TVar("loop", 17)>>, 13), 1)

\* The Location of the call of loop in tail position, in both TailLoop programs.
TailCallLoc == TailLoopMemo(0).value.value.otherwise.loc

\* let f = (p1, .., pp) => 0; f(1, .., a)
Arity(p, a) ==
    TLet("f", TFunction([i \in 1..p |-> "p" \o ToString(i)], TInt(0, 3), 2),
         TCall(TVar("f", 5), [i \in 1..a |-> TInt(i, 5 + i)], 4), 1)

\* let x = 1; let y = 2; print(x + y)
PrintSum ==
    TLet("x", TInt(1, 2),
         TLet("y", TInt(2, 4),
              TPrint(TBinary(TVar("x", 7), "Add", TVar("y", 8), 6), 5), 3), 1)

\* let f = (a, b) => (a, b); first(f(1, 2))
FirstOfPair ==
    TLet("f", TFunction(<<"a", "b">>, TTuple(TVar("a", 4), TVar("b", 5), 3), 2),
         TFirst(TCall(TVar("f", 8), <<TInt(1, 9), TInt(2, 10)>>, 7), 6), 1)

\* if (1 == 2) { true } else { false }
IfFalse ==
    TIf(TBinary(TInt(1, 3), "Eq", TInt(2, 4), 2), TBool(TRUE, 5), TBool(FALSE, 6), 1)

\* second(("a", print("b")))
SecondOfPair == TSecond(TTuple(TStr("a", 3), TPrint(TStr("b", 5), 4), 2), 1)

\* let p = (a) => print(a); (p(1), p(1))
ImpureTwice ==
    TLet("p", TFunction(<<"a">>, TPrint(TVar("a", 4), 3), 2),
         TTuple(TCall(TVar("p", 7), <<TInt(1, 8)>>, 6),
                TCall(TVar("p", 10), <<TInt(1, 11)>>, 9), 5), 1)

\* z
Unbound == TVar("z", 1)

\* 1(2)
CallOfInt == TCall(TInt(1, 2), <<TInt(2, 3)>>, 1)

\* if (1) { 2 } else { 3 }
IfOfInt == TIf(TInt(1, 2), TInt(2, 3), TInt(3, 4), 1)

\* first(1)
FirstOfInt == TFirst(TInt(1, 2), 1)

\* second(true)
SecondOfBool == TSecond(TBool(TRUE, 2), 1)

\* ("a" < "b") && (true || false)
Logic ==
    TBinary(TBinary(TStr("a", 3), "Lt", TStr("b", 4), 2), "And",
            TBinary(TBool(TRUE, 6), "Or", TBool(FALSE, 7), 5), 1)

\* (0 - 7) / 2
DivideNegative ==
    TBinary(TBinary(TInt(0, 3), "Sub", TInt(7, 4), 2), "Div", TInt(2, 5), 1)

\* let g = (x) => x; let f = (x) => g(5) + x; f(1)
ReadAfterCall ==
    TLet("g", TFunction(<<"x">>, TVar("x", 3), 2),
         TLet("f", TFunction(<<"x">>,
                             TBinary(TCall(TVar("g", 8), <<TInt(5, 9)>>, 7), "Add",
                                     TVar("x", 10), 6), 5),
              TCall(TVar("f", 12), <<TInt(1, 13)>>, 11), 4), 1)

\* (print(1), u + print(2))
ErrorInLeftOperand ==
    TTuple(TPrint(TInt(1, 3), 2),
           TBinary(TVar("u", 5), "Add", TPrint(TInt(2, 7), 6), 4), 1)

\* u(print(1))
ErrorInCallee == TCall(TVar("u", 2), <<TPrint(TInt(1, 4), 3)>>, 1)

\* let f = (a, b) => a; f(u, print(3))
ErrorInArgument ==
    TLet("f", TFunction(<<"a", "b">>, TVar("a", 3), 2),
         TCall(TVar("f", 5), <<TVar("u", 6), TPrint(TInt(3, 8), 7)>>, 4), 1)

\* let x = u; print(4)
ErrorInLetValue == TLet("x", TVar("u", 2), TPrint(TInt(4, 4), 3), 1)

\* let f = (a) => (u, v); let x = f(1); print(5)
ErrorInPureBody ==
    TLet("f", TFunction(<<"a">>, TTuple(TVar("u", 4), TVar("v", 5), 3), 2),
         TLet("x", TCall(TVar("f", 8), <<TInt(1, 9)>>, 7), TPrint(TInt(5, 11), 10), 6), 1)

\* print((print(1), print("a")))
PrintOrder ==
    TPrint(TTuple(TPrint(TInt(1, 4), 3), TPrint(TStr("a", 6), 5), 2), 1)

\* let x = N; .. let x = 1; x
RECURSIVE LetChain(_)
LetChain(N) ==
    IF N = 0 THEN TVar("x", 0)
    ELSE TLet("x", TInt(N, 3 * N), LetChain(N - 1), 3 * N - 1)

\* N Ifs, each in the branch the one around it takes; the conditions alternate:
\* if (true) { if (false) { 0 } else { .. 7 .. } } else { 0 }
RECURSIVE IfChain(_)
IfChain(N) ==
    IF N = 0 THEN TInt(7, 0)
    ELSE IF N % 2 = 1
    THEN TIf(TBool(TRUE, 4 * N), IfChain(N - 1), TInt(0, 4 * N - 2), 4 * N - 1)
    ELSE TIf(TBool(FALSE, 4 * N), TInt(0, 4 * N - 2), IfChain(N - 1), 4 * N - 1)

\* (false && print(true), true || print(1))
RightOperands ==
    TTuple(TBinary(TBool(FALSE, 3), "And", TPrint(TBool(TRUE, 5), 4), 2),
           TBinary(TBool(TRUE, 7), "Or", TPrint(TInt(1, 9), 8), 6), 1)

\* (if (true) { print(1) } else { print(u) }, if (0) { print(3) } else { print(4) })
BranchPrints ==
    TTuple(TIf(TBool(TRUE, 3), TPrint(TInt(1, 5), 4), TPrint(TVar("u", 7), 6), 2),
           TIf(TInt(0, 9), TPrint(TInt(3, 11), 10), TPrint(TInt(4, 13), 12), 8), 1)

\* 1(print(2))
NotCallable == TCall(TInt(1, 2), <<TPrint(TInt(2, 4), 3)>>, 1)

\* let f = (a) => a; f(print(1), print(2))
ArgumentsThenArity ==
    TLet("f", TFunction(<<"a">>, TVar("a", 3), 2),
         TCall(TVar("f", 5), <<TPrint(TInt(1, 7), 6), TPrint(TInt(2, 9), 8)>>, 4), 1)

\* let q = (a) => a; let p = (a) => print(q(a)); (p(1), p(1))
ImpureAroundPure ==
    TLet("q", TFunction(<<"a">>, TVar("a", 3), 2),
         TLet("p", TFunction(<<"a">>,
                             TPrint(TCall(TVar("q", 8), <<TVar("a", 9)>>, 7), 6), 5),
              TTuple(TCall(TVar("p", 12), <<TInt(1, 13)>>, 11),
                     TCall(TVar("p", 15), <<TInt(1, 16)>>, 14), 10), 4), 1)

\* let a = () => 1; let b = () => 2; let ap = (t) => first(t)(); (ap((a, 0)), ap((b, 0)))
ClosureInTuple ==
    TLet("a", TFunction(<<>>, TInt(1, 3), 2),
         TLet("b", TFunction(<<>>, TInt(2, 6), 5),
              TLet("ap", TFunction(<<"t">>,
                                   TCall(TFirst(TVar("t", 12), 11), <<>>, 10), 9),
                   TTuple(TCall(TVar("ap", 15), <<TTuple(TVar("a", 17), TInt(0, 18), 16)>>, 14),
                          TCall(TVar("ap", 20), <<TTuple(TVar("b", 22), TInt(0, 23), 21)>>, 19),
                          13), 8), 4), 1)

\* let y = (let x = 1; x); x
LetLeak ==
    TLet("y", TLet("x", TInt(1, 3), TVar("x", 4), 2), TVar("x", 5), 1)

\* let x = 1; let f = (a) => a; let x = 2; f(x)
ArgumentShadowed ==
    TLet("x", TInt(1, 2),
         TLet("f", TFunction(<<"a">>, TVar("a", 5), 4),
              TLet("x", TInt(2, 7),
                   TCall(TVar("f", 9), <<TVar("x", 10)>>, 8), 6), 3), 1)

\* let f = (t) => first(t); (f(("1", 2)), f((1, 2)))
TupleCollision ==
    TLet("f", TFunction(<<"t">>, TFirst(TVar("t", 4), 3), 2),
         TTuple(TCall(TVar("f", 7), <<TTuple(TStr("1", 9), TInt(2, 10), 8)>>, 6),
                TCall(TVar("f", 12), <<TTuple(TInt(1, 14), TInt(2, 15), 13)>>, 11), 5), 1)

Programs ==
    {LateBinding, Precedence, MemoTwice, SameBody, NestedSameKey, DivideByZero,
     RemainderByZero, ClosureArgument, PrintSum, FirstOfPair, IfFalse, SecondOfPair,
     ImpureTwice, Unbound, CallOfInt, IfOfInt, FirstOfInt, SecondOfBool, Logic,
     DivideNegative, ReadAfterCall, ErrorInLeftOperand, ErrorInCallee, ErrorInArgument,
     ErrorInLetValue, ErrorInPureBody, PrintOrder, RightOperands, BranchPrints,
     NotCallable, ArgumentsThenArity, ImpureAroundPure, ClosureInTuple, LetLeak,
     ArgumentShadowed, TupleCollision}
      \cup {TailLoopMemo(n) : n \in 0..MaxChain}
      \cup {TailLoopClosure(n) : n \in 0..MaxChain}
      \cup {Arity(p, a) : p \in 0..MaxArity, a \in 0..MaxArity}
      \cup {LetChain(n) : n \in 1..MaxChain}
      \cup {IfChain(n) : n \in 1..MaxChain}

(***************************************************************************)
(* The runs: eval_file(file) and Interpreter::eval_file(file), each from   *)
(* an empty Context and an empty Cache.                                    *)
(***************************************************************************)
EntryFrame(e) ==
    Frame(IF e = "eval_file" THEN "eval_file" ELSE "Interpreter_eval_file",
          <<>>, EmptyContext, <<>>, <<>>, NoTrampoline)

Init ==
    /\ engine \in {"eval_file", "Interpreter"}
    /\ prog \in Programs
    /\ stack = <<EntryFrame(engine)>>
    /\ ret = <<>>
    /\ cache = EmptyCache
    /\ out = <<>>
    /\ ictx = EmptyContext
    /\ result = NoResult
    /\ log = <<>>
    /\ pterm = <<>>
    /\ pres = <<>>
    /\ before = <<>>

Next ==
    \/ eval
    \/ eval_function
    \/ eval_var
    \/ eval_let
    \/ eval_arguments
    \/ eval_call
    \/ memo_eval
    \/ eval_if
    \/ eval_binary
    \/ eval_tuple
    \/ eval_first
    \/ eval_second
    \/ eval_print
    \/ eval_file
    \/ Trampoline_run
    \/ bounce_let
    \/ bounce_function
    \/ bounce_call
    \/ Interpreter_memo_eval
    \/ bounce_if
    \/ bounce_binary
    \/ bounce_var
    \/ bounce_tuple
    \/ bounce_first
    \/ bounce_second
    \/ bounce_print
    \/ Interpreter_eval_file

Spec == Init /\ [][Next]_vars

(***************************************************************************)
(* Both entry points on one file: eval_file(file), and when it has         *)
(* returned Interpreter::eval_file(file), from an empty Context and Cache. *)
(***************************************************************************)
InitBoth ==
    /\ engine = "eval_file"
    /\ prog \in Programs
    /\ stack = <<EntryFrame(engine)>>
    /\ ret = <<>>
    /\ cache = EmptyCache
    /\ out = <<>>
    /\ ictx = EmptyContext
    /\ result = NoResult
    /\ log = <<>>
    /\ pterm = <<>>
    /\ pres = <<>>
    /\ before = <<>>

\* eval_file has returned: the same file is handed to Interpreter::eval_file.
InterpreterNext ==
    /\ engine = "eval_file"
    /\ result # NoResult
    /\ before = <<>>
    /\ before' = <<[result |-> result, out |-> out]>>
    /\ engine' = "Interpreter"
    /\ stack' = <<EntryFrame("Interpreter")>>
    /\ ret' = <<>>
    /\ cache' = EmptyCache
    /\ out' = <<>>
    /\ ictx' = EmptyContext
    /\ result' = NoResult
    /\ log' = <<>>
    /\ UNCHANGED <<prog, pterm, pres>>

NextBoth ==
    \/ eval
    \/ eval_function
    \/ eval_var
    \/ eval_let
    \/ eval_arguments
    \/ eval_call
    \/ memo_eval
    \/ eval_if
    \/ eval_binary
    \/ eval_tuple
    \/ eval_first
    \/ eval_second
    \/ eval_print
    \/ eval_file
    \/ Trampoline_run
    \/ bounce_let
    \/ bounce_function
    \/ bounce_call
    \/ Interpreter_memo_eval
    \/ bounce_if
    \/ bounce_binary
    \/ bounce_var
    \/ bounce_tuple
    \/ bounce_first
    \/ bounce_second
    \/ bounce_print
    \/ Interpreter_eval_file
    \/ InterpreterNext

SpecBoth == InitBoth /\ [][NextBoth]_vars

(***************************************************************************)
(* is_pure on its own: the terms the tests of the source build (a literal, *)
(* a variable, and Function, Print and Let around them) are handed to it.  *)
(***************************************************************************)
RECURSIVE PureTerms(_)
PureTerms(d) ==
    IF d = 0 THEN {TInt(5, 0), TVar("y", 0)}
    ELSE LET S == PureTerms(d - 1)
         IN  S \cup {TFunction(<<>>, t, 0) : t \in S}
               \cup {TPrint(t, 0) : t \in S}
               \cup {TLet("y", a, b, 0) : a \in S, b \in S}

InitPure ==
    /\ pterm \in PureTerms(PureDepth)
    /\ pres = <<>>
    /\ before = <<>>
    /\ engine = "is_pure"
    /\ prog = <<>>
    /\ stack = <<>>
    /\ ret = <<>>
    /\ cache = EmptyCache
    /\ out = <<>>
    /\ ictx = EmptyContext
    /\ result = NoResult
    /\ log = <<>>

ApplyIsPure ==
    /\ pres = <<>>
    /\ pres' = <<is_pure(pterm)>>
    /\ UNCHANGED <<engine, prog, stack, ret, cache, out, ictx, result, log, pterm, before>>

NextPure == ApplyIsPure

SpecPure == InitPure /\ [][NextPure]_vars

(***************************************************************************)
(* The operators of Value on their own: each is handed every pair of the   *)
(* operands below, at a Location.                                          *)
(***************************************************************************)
BinaryOps ==
    {"Eq", "Neq", "Lt", "Lte", "Gt", "Gte", "And", "Or", "Add", "Sub", "Mul", "Div", "Rem"}

Operands ==
    {VInt(n) : n \in (-MaxInt)..MaxInt}
      \cup {VStr("a"), VStr("b"), VBool(TRUE), VBool(FALSE)}
      \cup {VTuple(VInt(1), VInt(2)), VClosure(<<>>, TInt(0, 0), EmptyContext)}

OperandLocation == 7

InitValue ==
    /\ pterm \in [op : BinaryOps, l : Operands, r : Operands]
    /\ pres = <<>>
    /\ before = <<>>
    /\ engine = "Value"
    /\ prog = <<>>
    /\ stack = <<>>
    /\ ret = <<>>
    /\ cache = EmptyCache
    /\ out = <<>>
    /\ ictx = EmptyContext
    /\ result = NoResult
    /\ log = <<>>

ApplyOperator ==
    /\ pres = <<>>
    /\ pres' = <<apply_binary(pterm.op, pterm.l, pterm.r, OperandLocation)>>
    /\ UNCHANGED <<engine, prog, stack, ret, cache, out, ictx, result, log, pterm, before>>

NextValue == ApplyOperator

SpecValue == InitValue /\ [][NextValue]_vars

(***************************************************************************)
(* The properties.                                                         *)
(***************************************************************************)
Events(ev) == {i \in 1..Len(log) : log[i].ev = ev}

HasClosure(arguments) == \E i \in 1..Len(arguments) : arguments[i].tag = "Closure"

Finished == result.kind # "None"

TailLoops ==
    {TailLoopMemo(n) : n \in 0..MaxChain} \cup {TailLoopClosure(n) : n \in 0..MaxChain}

\* C1: in Interpreter::eval_file every call of the tail call site of a chain of
\* tail calls is made at the same native nesting depth, however long the chain,
\* on the memoized path as with a Closure among the arguments.
C1_TailCallsKeepTheDepth ==
    (engine = "Interpreter" /\ prog \in TailLoops) =>
        \A i \in Events("call") : \A j \in Events("call") :
            (log[i].loc = TailCallLoc /\ log[j].loc = TailCallLoc)
                => log[i].depth = log[j].depth

\* What a name resolves to in the body of a call: the argument of the (last)
\* parameter of that name, else the captured value, else the caller's value.
Resolve(closure, arguments, caller, n) ==
    IF \E i \in 1..Len(closure.parameters) : closure.parameters[i] = n
    THEN arguments[CHOOSE i \in 1..Len(closure.parameters) :
                       /\ closure.parameters[i] = n
                       /\ \A j \in (i + 1)..Len(closure.parameters) : closure.parameters[j] # n]
    ELSE IF n \in DOMAIN closure.context THEN closure.context[n]
    ELSE caller[n]

ResolvedContext(closure, arguments, caller) ==
    [n \in {closure.parameters[i] : i \in 1..Len(closure.parameters)}
             \cup DOMAIN closure.context \cup DOMAIN caller
        |-> Resolve(closure, arguments, caller, n)]

\* eval_call or bounce_call holds the closure and has just got the argument values.
Binding ==
    /\ Len(stack) > 0
    /\ Top.fn \in {"eval_call", "bounce_call"}
    /\ Top.pc = 2
    /\ R.kind = "Ok"

\* The context the caller of the closure was in when it made the call.
CallerContext == IF Top.fn = "eval_call" THEN Top.ctx ELSE Top.vals[3]

\* The Var nodes a body reads itself: those outside its Function literals.
RECURSIVE BodyVars(_)
BodyVars(t) ==
    CASE t.kind = "Var" -> {t}
      [] t.kind = "Let" -> BodyVars(t.value) \cup BodyVars(t.next)
      [] t.kind = "Call" ->
            BodyVars(t.callee) \cup UNION {BodyVars(t.arguments[i]) : i \in 1..Len(t.arguments)}
      [] t.kind = "If" ->
            BodyVars(t.condition) \cup BodyVars(t.then) \cup BodyVars(t.otherwise)
      [] t.kind = "Binary" -> BodyVars(t.lhs) \cup BodyVars(t.rhs)
      [] t.kind = "Tuple" -> BodyVars(t.first) \cup BodyVars(t.second)
      [] t.kind \in {"First", "Second", "Print"} -> BodyVars(t.value)
      [] OTHER -> {}

\* The names a body binds itself by a Let.
RECURSIVE LetNames(_)
LetNames(t) ==
    CASE t.kind = "Let" -> {t.name} \cup LetNames(t.value) \cup LetNames(t.next)
      [] t.kind = "Call" ->
            LetNames(t.callee) \cup UNION {LetNames(t.arguments[i]) : i \in 1..Len(t.arguments)}
      [] t.kind = "If" ->
            LetNames(t.condition) \cup LetNames(t.then) \cup LetNames(t.otherwise)
      [] t.kind = "Binary" -> LetNames(t.lhs) \cup LetNames(t.rhs)
      [] t.kind = "Tuple" -> LetNames(t.first) \cup LetNames(t.second)
      [] t.kind \in {"First", "Second", "Print"} -> LetNames(t.value)
      [] OTHER -> {}

\* The calls made so far of a body that reads this Var node itself.
CallsReading(var) == {i \in Events("call") : var \in BodyVars(log[i].closure.body)}

\* eval_var or bounce_var is about to look its name up.
Reading == Len(stack) > 0 /\ Top.fn \in {"eval_var", "bounce_var"}

\* The Result a lookup has just returned.
Found(fn, r) == IF fn = "eval_var" THEN r ELSE r.val.res

\* A read resolves as the one call of its body says.  (A read is judged when the
\* body it is of has been called once, so that the call it belongs to is known,
\* and the body has no Let of the name.)
ReadResolves ==
    Reading =>
        \A i \in CallsReading(Top.term) :
            (/\ CallsReading(Top.term) = {i}
             /\ log[i].bound.kind = "Ok"
             /\ Top.term.text \notin LetNames(log[i].closure.body)
             /\ Top.term.text \in DOMAIN ResolvedContext(log[i].closure, log[i].arguments,
                                                         log[i].caller))
            => /\ Found(Top.fn, ret'[1]).kind = "Ok"
               /\ Found(Top.fn, ret'[1]).val =
                     Resolve(log[i].closure, log[i].arguments, log[i].caller, Top.term.text)

\* C2: during the evaluation of the body of a called closure every name the body
\* reads resolves to the argument of the parameter of that name, else to the
\* captured value, else to the value in the caller's Context at the call.
C2_NamesOfTheBody == [][ReadResolves]_vars

\* At the start of the body the Context is the one of C2: the frame pushed for
\* the body by eval_call has it, and bounce_call has made it interpreter.context.
ContextAtBodyEntry ==
    [][(Binding /\ Len(Top.vals[1].parameters) = Len(R.val)) =>
          LET expected == ResolvedContext(Top.vals[1], R.val, CallerContext)
          IN  IF Top.fn = "eval_call"
              THEN /\ Len(stack') = Len(stack) + 1
                   /\ stack'[Len(stack')].term = Top.vals[1].body
                   /\ stack'[Len(stack')].ctx = expected
              ELSE ictx' = expected]_vars

\* In eval_file the reads of a body resolve as C2 says.
NamesOfTheBodyInEvalFile == [][engine = "eval_file" => ReadResolves]_vars

\* C3: let x = 3; let f = () => y; let y = 4; f() yields Int(4).
C3_LateBinding == (prog = LateBinding /\ Finished) => result = Ok(VInt(4))

C3_Witness ==
    /\ prog = LateBinding
    /\ result = Ok(VInt(4))
    /\ \E i \in Events("call") :
          /\ "y" \notin DOMAIN log[i].closure.context
          /\ log[i].caller["y"] = VInt(4)

\* memo_eval or Interpreter::memo_eval is entered.
MemoEntry ==
    /\ Len(stack) > 0
    /\ Top.fn \in {"memo_eval", "Interpreter_memo_eval"}
    /\ Top.pc = 0

\* The memoized calls of this body with these arguments that returned a value.
StoredFor(body, arguments) ==
    {i \in Events("stored") : log[i].body = body /\ log[i].arguments = arguments}

LastStored(body, arguments) ==
    log[CHOOSE i \in StoredFor(body, arguments) :
            \A j \in StoredFor(body, arguments) : j <= i].val

\* The value a memo_eval has just returned to its caller.
Returned(fn, r) == IF fn = "memo_eval" THEN r.val ELSE r.val.res.val

\* C4: a call of a pure closure with non-closure arguments, made after a call of
\* it with the same arguments returned a value, returns the stored value in one
\* step: no frame is pushed for the body, nothing is printed, the cache is kept.
C4_SecondCallIsNotEvaluated ==
    [][(MemoEntry /\ ~HasClosure(Top.vals) /\ StoredFor(Top.term, Top.vals) # {}) =>
          /\ stack' = Pop
          /\ out' = out
          /\ cache' = cache
          /\ Len(ret') = 1
          /\ ret'[1].kind = "Ok"
          /\ (Top.fn = "Interpreter_memo_eval" => ret'[1].val.tr = "Land")
          /\ Returned(Top.fn, ret'[1]) = LastStored(Top.term, Top.vals)]_vars

\* Both calls of MemoTwice are done: one line was printed, by the first.
C4_Witness ==
    /\ prog = MemoTwice
    /\ result = Ok(VTuple(VInt(1), VInt(1)))
    /\ out = <<"1">>
    /\ Cardinality(Events("hit")) = 1
    /\ Cardinality(Events("miss")) = 1

\* The calls that go to memo_eval with arguments a key is derived from.
MemoCalls ==
    {i \in Events("call") :
        log[i].bound.kind = "Ok" /\ log[i].pure /\ ~HasClosure(log[i].arguments)}

\* C5: whatever the captured Context of the closure, a memoized call whose body
\* and argument values are those of an earlier call that stored its value is a
\* hit and returns that value.
C5_KeyIgnoresCapturedContext ==
    \A j \in MemoCalls :
        (j < Len(log) /\ StoredFor(log[j].closure.body, log[j].arguments) # {}
                      /\ \E i \in StoredFor(log[j].closure.body, log[j].arguments) : i < j)
            => /\ log[j + 1].ev = "hit"
               /\ log[j + 1].val \in
                     {log[i].val : i \in StoredFor(log[j].closure.body, log[j].arguments)}

\* b() of SameBody returned the 1 cached by a(), though b captured k = 2.
C5_Witness ==
    /\ prog = SameBody
    /\ result = Ok(VTuple(VInt(1), VInt(1)))
    /\ \E i \in MemoCalls : \E j \in MemoCalls :
          /\ i < j
          /\ log[i].closure.body = log[j].closure.body
          /\ log[i].arguments = log[j].arguments
          /\ log[i].closure.context["k"] = VInt(1)
          /\ log[j].closure.context["k"] = VInt(2)
          /\ log[j + 1].ev = "hit"
          /\ log[j + 1].val = VInt(1)

\* C6: in every step each key of the Cache stays and keeps its value.
C6_CacheOnlyGrows ==
    [][\A k \in DOMAIN cache : k \in DOMAIN cache' /\ cache'[k] = cache[k]]_vars

\* C7: no run ends in a panic.
C7_NoPanic == result.kind # "Panic"

RECURSIVE Unwrap(_)
Unwrap(t) == IF t.kind = "Function" THEN Unwrap(t.value) ELSE t

\* C8: is_pure(t) is false exactly when t, with the Function literals around it
\* taken off, is a Print node.
C8_IsPure == pres # <<>> => (pres[1] = (Unwrap(pterm).kind # "Print"))

\* let y = print(5); y was classified pure.
C8_Witness ==
    /\ pterm = TLet("y", TPrint(TInt(5, 0), 0), TVar("y", 0), 0)
    /\ pres = <<TRUE>>

\* A frame of memo_eval or Interpreter::memo_eval is on top.
MemoTop == Len(stack) > 0 /\ Top.fn \in {"memo_eval", "Interpreter_memo_eval"}

\* C9: a memoized call with a Closure among its arguments starts the evaluation
\* of its body, returns what that evaluation returns and leaves the Cache as it is.
C9_ClosureArgumentIsNotCached ==
    [][(MemoTop /\ HasClosure(Top.vals)) =>
          /\ cache' = cache
          /\ Top.pc # 1
          /\ (Top.pc = 0 /\ Top.fn = "memo_eval") =>
                /\ Len(stack') = Len(stack) + 1
                /\ stack'[Len(stack')] = EvalFrame(Top.term, Top.ctx)
          /\ (Top.pc = 0 /\ Top.fn = "Interpreter_memo_eval") =>
                /\ stack' = Pop
                /\ ret' = <<Ok(Interpreter_eval(Top.term))>>
          /\ Top.pc = 2 => (stack' = Pop /\ ret' = ret)]_vars

\* Both calls of ClosureArgument are done, neither through the Cache.
C9_Witness ==
    /\ prog = ClosureArgument
    /\ result.kind = "Ok"
    /\ Cardinality(Events("nokey")) = 2
    /\ Events("hit") = {}
    /\ cache = EmptyCache

\* C10: a call with a number of arguments other than the number of parameters
\* returns the error "invalid arguments" at the Location of the Call, with no
\* frame pushed for the body or for memo_eval and the Cache, the output and
\* interpreter.context as they were.
C10_ArityMismatch ==
    [][(Binding /\ Len(Top.vals[1].parameters) # Len(R.val)) =>
          /\ stack' = Pop
          /\ Len(ret') = 1
          /\ ret'[1].kind = "Err"
          /\ ret'[1].err.message = "invalid arguments"
          /\ ret'[1].err.location = Top.term.loc
          /\ cache' = cache
          /\ out' = out
          /\ ictx' = ictx]_vars

\* A closure of two parameters was called with one argument.
C10_Witness ==
    /\ prog = Arity(2, 1)
    /\ result.kind = "Err"
    /\ result.err.message = "invalid arguments"
    /\ result.err.location = Arity(2, 1).next.loc
    /\ cache = EmptyCache
    /\ Events("miss") = {}

\* The RuntimeError that has been produced, <<>> when none has: on its way to the
\* caller in a Result, landed in the Trampoline a run is about to return, or returned
\* by the entry point.
Raised ==
    IF Len(ret) = 1 /\ R.kind = "Err" THEN <<R.err>>
    ELSE IF Len(ret) = 1 /\ At("run") /\ R.kind = "Ok"
    THEN (IF R.val.tr = "Land" /\ R.val.res.kind = "Err" THEN <<R.val.res.err>> ELSE <<>>)
    ELSE IF At("run") /\ Top.pc = 0 /\ Top.tr.tr = "Land"
    THEN (IF Top.tr.res.kind = "Err" THEN <<Top.tr.res.err>> ELSE <<>>)
    ELSE IF result.kind = "Err" THEN <<result.err>>
    ELSE <<>>

\* Where the programs that fail more than once, were they evaluated to the end,
\* fail first in evaluation order: at their variable u.
FirstError ==
    [p \in {ErrorInLeftOperand, ErrorInCallee, ErrorInArgument, ErrorInLetValue,
            ErrorInPureBody}
        |-> CASE p = ErrorInLeftOperand -> 5
              [] p = ErrorInCallee -> 2
              [] p = ErrorInArgument -> 6
              [] p = ErrorInLetValue -> 2
              [] p = ErrorInPureBody -> 4]

\* C11: once a RuntimeError is produced every step hands that same error on
\* towards the entry point: no frame is pushed, nothing is printed, the Cache is
\* kept; and what the entry point returns is the first error in evaluation order.
C11_FirstErrorEndsTheRun ==
    [][/\ Raised # <<>> =>
            /\ Raised' = Raised
            /\ Len(stack') <= Len(stack)
            /\ out' = out
            /\ cache' = cache
            /\ log' = log
       /\ (result'.kind # "None" /\ prog \in DOMAIN FirstError) =>
            /\ result'.kind = "Err"
            /\ result'.err.location = FirstError[prog]]_vars

\* The run of (print(1), u + print(2)) ended with the error of u, after the 1 was
\* printed and without the 2.
C11_Witness ==
    /\ prog = ErrorInLeftOperand
    /\ result.kind = "Err"
    /\ result.err.location = 5
    /\ out = <<"1">>

\* eval_print or bounce_print is on top.
Printing == Len(stack) > 0 /\ Top.fn \in {"eval_print", "bounce_print"}

\* The Result eval_print or bounce_print has just returned.
Printed(fn, r) == IF fn = "eval_print" THEN r ELSE r.val.res

\* C12: a Print writes the rendering of the value of its operand once, in the
\* step after the operand returned that value, and returns the value; no other
\* step writes, and no step takes back what was written.
C12_PrintOnceAfterTheOperand ==
    [][/\ (Printing /\ Top.pc = 1 /\ R.kind = "Ok") =>
            /\ out' = Append(out, display(R.val))
            /\ stack' = Pop
            /\ Len(ret') = 1
            /\ Printed(Top.fn, ret'[1]).kind = "Ok"
            /\ Printed(Top.fn, ret'[1]).val = R.val
       /\ ~(Printing /\ Top.pc = 1 /\ R.kind = "Ok") => out' = out]_vars

\* print((print(1), print("a"))) has printed the components, then the tuple.
C12_Witness ==
    /\ prog = PrintOrder
    /\ out = <<"1", "a", "(1, a)">>
    /\ result = Ok(VTuple(VInt(1), VStr("a")))

Comparisons == {"Eq", "Neq", "Lt", "Lte", "Gt", "Gte"}

\* The operator has been applied to the operands.
Applied == engine = "Value" /\ pres # <<>>

\* l is before r in the order of their variant: of the integers, of the strings
\* "a" and "b", of false and true.
Before(l, r) ==
    CASE l.tag = "Int" -> l.int < r.int
      [] l.tag = "Str" -> l.str = "a" /\ r.str = "b"
      [] l.tag = "Bool" -> ~l.bool /\ r.bool

NaturalComparison(op, l, r) ==
    CASE op = "Eq" -> l = r
      [] op = "Neq" -> l # r
      [] op = "Lt" -> Before(l, r)
      [] op = "Lte" -> Before(l, r) \/ l = r
      [] op = "Gt" -> Before(r, l)
      [] op = "Gte" -> Before(r, l) \/ l = r

\* C13: eq, neq, lt, lte, gt and gte of two Int, two Str or two Bool return the
\* Bool of the comparison; of any other pair of operands they return the
\* RuntimeError "invalid comparison".
C13_Comparisons ==
    (Applied /\ pterm.op \in Comparisons) =>
        IF pterm.l.tag = pterm.r.tag /\ pterm.l.tag \in {"Int", "Str", "Bool"}
        THEN pres[1] = Ok(VBool(NaturalComparison(pterm.op, pterm.l, pterm.r)))
        ELSE /\ pres[1].kind = "Err"
             /\ pres[1].err.message = "invalid comparison"

\* eq of a Tuple and itself was refused.
C13_Witness ==
    /\ Applied
    /\ pterm.op = "Eq"
    /\ pterm.l = VTuple(VInt(1), VInt(2))
    /\ pterm.r = pterm.l
    /\ pres[1].kind = "Err"

BothInt == pterm.l.tag = "Int" /\ pterm.r.tag = "Int"

\* C14: add of two Int returns their sum and sub their difference; of any other
\* pair of operands add and sub return the RuntimeError "invalid numeric operation".
C14_AddAndSub ==
    (Applied /\ pterm.op \in {"Add", "Sub"}) =>
        IF BothInt
        THEN pres[1] = Ok(VInt(IF pterm.op = "Add" THEN pterm.l.int + pterm.r.int
                               ELSE pterm.l.int - pterm.r.int))
        ELSE /\ pres[1].kind = "Err"
             /\ pres[1].err.message = "invalid numeric operation"

\* 2 + -1 was 1.
C14_Witness ==
    /\ Applied
    /\ pterm = [op |-> "Add", l |-> VInt(2), r |-> VInt(-1)]
    /\ pres = <<Ok(VInt(1))>>

Abs(n) == IF n >= 0 THEN n ELSE -n

\* a / b of two integers, b not 0: the quotient rounded towards zero.
Quotient(a, b) ==
    CHOOSE q \in (-Abs(a))..Abs(a) :
        /\ Abs(q) * Abs(b) <= Abs(a)
        /\ Abs(a) < (Abs(q) + 1) * Abs(b)
        /\ q > 0 => (a > 0) = (b > 0)
        /\ q < 0 => (a > 0) # (b > 0)

\* C18: of two Int, Mul returns the difference, which is what Sub returns, and
\* Rem with a right operand other than 0 returns the quotient, which is what Div
\* returns.
C18_MulIsSubRemIsDiv ==
    (Applied /\ BothInt) =>
        /\ pterm.op = "Mul" =>
              /\ pres[1] = Ok(VInt(pterm.l.int - pterm.r.int))
              /\ pres[1] = sub(pterm.l, pterm.r, OperandLocation)
        /\ (pterm.op = "Rem" /\ pterm.r.int # 0) =>
              /\ pres[1] = Ok(VInt(Quotient(pterm.l.int, pterm.r.int)))
              /\ pres[1] = div(pterm.l, pterm.r, OperandLocation)

\* 2 * 2 was 0, not 4.
C18_Witness ==
    /\ Applied
    /\ pterm = [op |-> "Mul", l |-> VInt(2), r |-> VInt(2)]
    /\ pres = <<Ok(VInt(0))>>

\* The Context a lookup reads: the context eval_var was handed, interpreter.context
\* for bounce_var.
ContextRead == IF Top.fn = "eval_var" THEN Top.ctx ELSE ictx

\* C15: the lookup of a name that is not bound returns a RuntimeError whose
\* message is "unbound variable" whatever the name, whose detail names the
\* variable and whose location is that of the Var.
C15_UnboundVariable ==
    [][(Reading /\ Top.term.text \notin DOMAIN ContextRead) =>
          /\ Found(Top.fn, ret'[1]).kind = "Err"
          /\ Found(Top.fn, ret'[1]).err.message = "unbound variable"
          /\ Found(Top.fn, ret'[1]).err.full_text =
                "variable \"" \o Top.term.text \o "\" was not defined in the current scope"
          /\ Found(Top.fn, ret'[1]).err.location = Top.term.loc]_vars

TailChains == {LetChain(n) : n \in 1..MaxChain} \cup {IfChain(n) : n \in 1..MaxChain}

\* bounce_let has the value of the Let, or bounce_if the Bool of the condition.
HandingBack ==
    /\ Len(stack) > 0
    /\ Top.fn \in {"bounce_let", "bounce_if"}
    /\ Top.pc = 1
    /\ R.kind = "Ok"
    /\ Top.fn = "bounce_if" => R.val.tag = "Bool"

\* The term bounce_let or bounce_if goes on with.
Continuation ==
    IF Top.fn = "bounce_let" THEN Top.term.next
    ELSE IF R.val.bool THEN Top.term.then ELSE Top.term.otherwise

\* C16: bounce_let returns the Trampoline of the next of its Let, and bounce_if
\* that of the branch taken, to the loop of Trampoline::run; every Let and If of a
\* chain of N Lets or Ifs in tail position starts at the native nesting depth of
\* the first, the one Trampoline::run of eval_file.
C16_LetAndIfBounce ==
    [][/\ HandingBack =>
            /\ stack' = Pop
            /\ ret' = <<Ok(Interpreter_eval(Continuation))>>
       /\ (engine = "Interpreter" /\ prog \in TailChains /\ Len(stack) > 0) =>
            ((Top.fn \in {"bounce_let", "bounce_if"} /\ Top.pc = 0) => NativeDepth = 1)]_vars

\* The chain of MaxChain Lets has been evaluated to its end.
C16_Witness ==
    /\ engine = "Interpreter"
    /\ prog = LetChain(MaxChain)
    /\ result = Ok(VInt(1))

\* eval_binary or bounce_binary of && or || is on top.
Connective ==
    /\ Len(stack) > 0
    /\ Top.fn \in {"eval_binary", "bounce_binary"}
    /\ Top.term.op \in {"And", "Or"}

\* The frame that evaluates the right operand.
RightOperandFrame ==
    IF Top.fn = "eval_binary" THEN EvalFrame(Top.term.rhs, Top.ctx)
    ELSE RunFrame(Interpreter_eval(Top.term.rhs))

\* The Result eval_binary or bounce_binary has just returned.
Operated(fn, r) == IF fn = "eval_binary" THEN r ELSE r.val.res

\* C17: && and || evaluate their right operand whatever the value of the left
\* one, and then return the AND or OR of two Bool and the RuntimeError "invalid
\* binary operation" for any other pair of values.
C17_RightOperandIsEvaluated ==
    [][/\ (Connective /\ Top.pc = 1 /\ R.kind = "Ok") =>
            /\ Len(stack') = Len(stack) + 1
            /\ stack'[Len(stack')] = RightOperandFrame
       /\ (Connective /\ Top.pc = 2 /\ R.kind = "Ok") =>
            /\ stack' = Pop
            /\ Len(ret') = 1
            /\ IF Top.vals[1].tag = "Bool" /\ R.val.tag = "Bool"
               THEN Operated(Top.fn, ret'[1])
                       = Ok(VBool(IF Top.term.op = "And" THEN Top.vals[1].bool /\ R.val.bool
                                  ELSE Top.vals[1].bool \/ R.val.bool))
               ELSE /\ Operated(Top.fn, ret'[1]).kind = "Err"
                    /\ Operated(Top.fn, ret'[1]).err.message = "invalid binary operation"]_vars

\* Both right operands of (false && print(true), true || print(1)) were printed,
\* and true || 1 was refused.
C17_Witness ==
    /\ prog = RightOperands
    /\ out = <<"true", "1">>
    /\ result.kind = "Err"
    /\ result.err.message = "invalid binary operation"
    /\ result.err.location = 7

\* eval_if or bounce_if is on top.
Branching == Len(stack) > 0 /\ Top.fn \in {"eval_if", "bounce_if"}

\* The frame that evaluates a term for the function on top.
OperandFrame(term) ==
    IF Top.fn \in {"eval_if", "eval_call"} THEN EvalFrame(term, Top.ctx)
    ELSE RunFrame(Interpreter_eval(term))

\* The branches of BranchPrints that are not to be evaluated.
BranchesNotTaken == {BranchPrints.first.otherwise, BranchPrints.second.then,
                     BranchPrints.second.otherwise}

\* C19: an If first evaluates its condition.  When the value is not a Bool it
\* returns the RuntimeError "invalid if condition" and no branch is evaluated;
\* when it is a Bool the branch it selects is evaluated, the other is not.
C19_OneBranch ==
    [][/\ (Branching /\ Top.pc = 0) =>
            /\ Len(stack') = Len(stack) + 1
            /\ stack'[Len(stack')] = OperandFrame(Top.term.condition)
       /\ (Branching /\ Top.pc = 1 /\ R.kind = "Ok") =>
            IF R.val.tag # "Bool"
            THEN /\ stack' = Pop
                 /\ Len(ret') = 1
                 /\ ret'[1].kind = "Err"
                 /\ ret'[1].err.message = "invalid if condition"
                 /\ out' = out
            ELSE IF Top.fn = "eval_if"
            THEN /\ Len(stack') = Len(stack) + 1
                 /\ stack'[Len(stack')] =
                       EvalFrame(IF R.val.bool THEN Top.term.then ELSE Top.term.otherwise,
                                 Top.ctx)
            ELSE /\ stack' = Pop
                 /\ ret' = <<Ok(Interpreter_eval(IF R.val.bool THEN Top.term.then
                                                 ELSE Top.term.otherwise))>>
       /\ prog = BranchPrints =>
            \A i \in 1..Len(stack) :
                stack[i].fn \in {"eval_print", "bounce_print"}
                    => stack[i].term \notin BranchesNotTaken]_vars

\* Of the four branches of BranchPrints only print(1) was evaluated, and the If
\* of 0 was refused.
C19_Witness ==
    /\ prog = BranchPrints
    /\ out = <<"1">>
    /\ result.kind = "Err"
    /\ result.err.message = "invalid if condition"
    /\ result.err.location = 9

\* eval_call or bounce_call is on top.
Calling == Len(stack) > 0 /\ Top.fn \in {"eval_call", "bounce_call"}

\* C20: a Call first evaluates its callee.  When the value is not a Closure it
\* returns the RuntimeError "invalid function call" at the Location of the Call
\* with no argument evaluated; when it is a Closure, eval_arguments evaluates the
\* arguments one after the other from the first, and the parameters are bound
\* only when there is a value for every argument.
C20_CalleeThenArguments ==
    [][/\ (Calling /\ Top.pc = 0) =>
            /\ Len(stack') = Len(stack) + 1
            /\ stack'[Len(stack')] = OperandFrame(Top.term.callee)
       /\ (Calling /\ Top.pc = 1 /\ R.kind = "Ok") =>
            IF R.val.tag # "Closure"
            THEN /\ stack' = Pop
                 /\ Len(ret') = 1
                 /\ ret'[1].kind = "Err"
                 /\ ret'[1].err.message = "invalid function call"
                 /\ ret'[1].err.location = Top.term.loc
                 /\ out' = out
            ELSE /\ Len(stack') = Len(stack) + 1
                 /\ stack'[Len(stack')].fn = "eval_arguments"
                 /\ stack'[Len(stack')].terms = Top.term.arguments
                 /\ stack'[Len(stack')].vals = <<>>
       /\ (At("eval_arguments") /\ Top.pc = 0 /\ Top.terms # <<>>) =>
            /\ Len(stack') = Len(stack) + 1
            /\ stack'[Len(stack')] = EvalFrame(Head(Top.terms), Top.ctx)
       /\ (At("eval_arguments") /\ Top.pc = 1 /\ R.kind = "Ok") =>
            /\ Len(stack') = Len(stack) + 1
            /\ stack'[Len(stack')] =
                  ArgumentsFrame(Tail(Top.terms), Append(Top.vals, R.val), Top.ctx)
       /\ Binding => Len(R.val) = Len(Top.term.arguments)]_vars

\* Both arguments of f(print(1), print(2)) were evaluated, in order, before the
\* call was refused for its arity.
C20_Witness ==
    /\ prog = ArgumentsThenArity
    /\ out = <<"1", "2">>
    /\ result.kind = "Err"
    /\ result.err.message = "invalid arguments"

\* 1(print(2)) was refused without its argument evaluated.
C20_WitnessNotCallable ==
    /\ prog = NotCallable
    /\ out = <<>>
    /\ result.kind = "Err"
    /\ result.err.message = "invalid function call"
    /\ result.err.location = 1

\* The body is a Print under its Function literals: what is_pure classifies impure.
Impure(body) == Unwrap(body).kind = "Print"

\* C21: a call of a closure whose body is classified impure goes straight to the
\* evaluation of the body with the Cache as it is and no lookup of a key; and a
\* step changes the Cache only as the insert of a memoized call.
C21_ImpureCallBypassesTheCache ==
    [][/\ (Binding /\ Len(Top.vals[1].parameters) = Len(R.val) /\ Impure(Top.vals[1].body)) =>
            /\ cache' = cache
            /\ Len(log') = Len(log) + 1
            /\ log'[Len(log')].ev = "call"
            /\ IF Top.fn = "eval_call"
               THEN /\ Len(stack') = Len(stack) + 1
                    /\ stack'[Len(stack')].fn = EvalFn(Top.vals[1].body)
                    /\ stack'[Len(stack')].term = Top.vals[1].body
               ELSE /\ stack' = Pop
                    /\ ret' = <<Ok(Interpreter_eval(Top.vals[1].body))>>
       /\ cache' # cache => (MemoTop /\ Top.pc = 1 /\ ~Impure(Top.term))]_vars

\* Both calls of the impure p printed; the one entry of the Cache is that of the
\* memoized q(1) nested in the first.
C21_Witness ==
    /\ prog = ImpureAroundPure
    /\ result = Ok(VTuple(VInt(1), VInt(1)))
    /\ out = <<"1", "1">>
    /\ Cardinality(DOMAIN cache) = 1
    /\ Cardinality(Events("miss")) = 1
    /\ Cardinality(Events("hit")) = 1
    /\ \A i \in Events("miss") \cup Events("hit") : log[i].body = TVar("a", 3)

\* The value is a Closure or a Tuple with a Closure somewhere in it.
RECURSIVE ContainsClosure(_)
ContainsClosure(v) ==
    CASE v.tag = "Closure" -> TRUE
      [] v.tag = "Tuple" -> ContainsClosure(v.first) \/ ContainsClosure(v.second)
      [] OTHER -> FALSE

\* C22: a memoized call with an argument that has a Closure in it, also inside a
\* Tuple, derives no key or fails: it is neither a hit nor a miss to be stored.
C22_NoKeyOfNestedClosure ==
    [][(MemoEntry /\ \E i \in 1..Len(Top.vals) : ContainsClosure(Top.vals[i])) =>
          IF result'.kind = "None"
          THEN Len(log') = Len(log) + 1 /\ log'[Len(log')].ev = "nokey"
          ELSE result'.kind = "Panic"]_vars

\* C23: for every program Interpreter::eval_file returns what eval_file returns
\* and prints what it prints.
C23_SameResultAndOutput ==
    (engine = "Interpreter" /\ Finished /\ before # <<>>) =>
        /\ result = before[1].result
        /\ out = before[1].out

\* The functions that run a sub-term to its value before they go on: the value of
\* a Let, the operands of a Binary, Print, First or Second, the condition of an
\* If, the components of a Tuple, the callee of a Call.
EagerCallers ==
    {"bounce_let", "bounce_binary", "bounce_if", "bounce_tuple", "bounce_first",
     "bounce_second", "bounce_print", "bounce_call"}

\* The nested run of such a sub-term returns its value.
SubEvaluationReturns ==
    /\ Len(stack) > 1
    /\ Top.fn = "run"
    /\ Top.pc = 0
    /\ Top.tr.tr = "Land"
    /\ Top.tr.res.kind = "Ok"
    /\ stack[Len(stack) - 1].fn \in EagerCallers

\* C24: when the nested run of an eager sub-evaluation returns,
\* interpreter.context is what it was when that run was entered.
C24_SubEvaluationKeepsTheContext ==
    [][SubEvaluationReturns => (ictx = Top.ctx /\ ictx' = Top.ctx)]_vars

\* The Context the caller of a Call is in once the callee is evaluated.
CurrentContext == IF Top.fn = "eval_call" THEN Top.ctx ELSE ictx

\* C25: the arguments of a Call are evaluated under the caller's current
\* Context: in the Context handed to eval_arguments every name the caller binds
\* has the caller's value, also when the closure captured another one.
C25_ArgumentsUnderTheCallersContext ==
    [][(Calling /\ Top.pc = 1 /\ R.kind = "Ok" /\ R.val.tag = "Closure") =>
          /\ Len(stack') = Len(stack) + 1
          /\ stack'[Len(stack')].fn = "eval_arguments"
          /\ \A n \in DOMAIN CurrentContext :
                get(stack'[Len(stack')].ctx, n) = Some(CurrentContext[n])]_vars

\* The memoized calls that returned a cached value for arguments that hold no
\* Closure, at any depth.
PlainHits ==
    {i \in Events("hit") :
        \A k \in 1..Len(log[i].arguments) : ~ContainsClosure(log[i].arguments[k])}

\* C26: a memoized call returns a cached value only when an earlier call of the
\* same body with the same argument values stored it: argument lists that
\* differ in any value have different keys.
C26_HitOnlyForTheSameArguments ==
    \A i \in PlainHits :
        \E j \in StoredFor(log[i].body, log[i].arguments) :
            j < i /\ log[j].val = log[i].val

\* The values the evaluations of a body have returned to memo_eval.
StoredValues == {log[i].val : i \in Events("stored")}

\* A memo_eval that missed has its body back with a RuntimeError.
BodyFailed == MemoTop /\ Top.pc = 1 /\ R.kind = "Err"

\* C27: when the body of a memoized call that missed returns a RuntimeError the
\* error is handed on and the Cache is left as it was; every value of the Cache
\* is one a body evaluation returned with success.
C27_FailuresAreNotCached ==
    /\ [](\A k \in DOMAIN cache : cache[k] \in StoredValues)
    /\ [][BodyFailed => (cache' = cache /\ stack' = Pop /\ ret' = <<R>>)]_vars

\* The call f(1) of ErrorInPureBody missed, its body failed on the unbound u, and
\* the run ended with that error and an empty Cache.
C27_Witness ==
    /\ prog = ErrorInPureBody
    /\ result.kind = "Err"
    /\ result.err.message = "unbound variable \"u\""
    /\ result.err.location = 4
    /\ Cardinality(Events("miss")) = 1
    /\ Events("stored") = {}
    /\ cache = EmptyCache

\* C28: the detail of the error "invalid arguments" names the number of
\* parameters of the closure and the number of arguments of the call.
C28_DetailCountsParametersAndArguments ==
    \A i \in Events("call") :
        log[i].bound.kind = "Err" =>
            /\ log[i].bound.err.message = "invalid arguments"
            /\ log[i].bound.err.full_text =
                  "expecting " \o ToString(Len(log[i].closure.parameters))
                      \o " arguments but got " \o ToString(Len(log[i].arguments))

====
